---- MODULE Spec2Model ----
(***************************************************************************)
(* Model of ping_sweep.py: a parallel ping sweep.  main() clamps the       *)
(* command-line values and calls sweep_network(), which enumerates the     *)
(* hosts of a network, submits one ping_once task per host to a            *)
(* ThreadPoolExecutor, and records each future's outcome in the main       *)
(* thread as the futures complete.  main() then logs the summary.          *)
(***************************************************************************)
EXTENDS Integers, Sequences, FiniteSets, TLC

\* ------------------------------------------------------------------------
\* Bounds of the model
\* ------------------------------------------------------------------------
MaxHosts == 2

MaxThreads == 2

\* ------------------------------------------------------------------------
\* Inputs
\* ------------------------------------------------------------------------
\* Values of --threads given on the command line.
ArgThreads == (-1) .. MaxThreads

\* Values of --timeout given on the command line (milliseconds).
ArgTimeouts == {-1, 0, 1001}

\* The network argument: an invalid specification, or a valid one whose
\* enumeration yields size hosts.
ArgNetworks == [valid : {TRUE}, size : 0 .. MaxHosts] \cup [valid : {FALSE}, size : {0}]

\* 10.0.0.0 as an integer: the network address of the enumerated networks.
NetBase == 167772160

\* The addresses the enumeration of a network yields.
Addresses(net) == {NetBase + i : i \in 1 .. net.size}

\* What running the ping command does for one address: exit 0, exit
\* non-zero, or the process cannot be run for a reason other than a missing
\* binary ("exc").
ProbeBehaviours == {"up", "down", "exc"}

\* The behaviours of the probing mechanism on one system; when there is no
\* ping binary, it is "missing" for every address.
Probers(net) == [Addresses(net) -> ProbeBehaviours] \cup {[a \in Addresses(net) |-> "missing"]}

VARIABLES
    pc,            \* position of the main thread
    platformSys,   \* platform.system()
    reach,         \* behaviour of the ping command per address
    network,       \* args.network
    argThreads,    \* args.threads
    argTimeout,    \* args.timeout
    quiet,         \* args.quiet
    threads,       \* sweep_network: threads
    timeout_ms,    \* sweep_network: timeout_ms
    hosts,         \* sweep_network: hosts
    task,          \* one future per host, with the state of its work item
    results,       \* sweep_network: results
    log,           \* records emitted through logging
    summary,       \* up_count and total computed by main
    exitStatus,    \* exit status of the process
    prev           \* summary of the previous run of the program, if any

vars == <<pc, platformSys, reach, network, argThreads, argTimeout, quiet,
          threads, timeout_ms, hosts, task, results, log, summary, exitStatus, prev>>

env == <<platformSys, reach, network, argThreads, argTimeout, quiet>>

args == <<threads, timeout_ms>>

\* ------------------------------------------------------------------------
\* Pure functions
\* ------------------------------------------------------------------------
Max(a, b) == IF a >= b THEN a ELSE b

Digit(d) == <<"0", "1", "2", "3", "4", "5", "6", "7", "8", "9">>[d + 1]

RECURSIVE NatToStr(_)
NatToStr(n) == IF n < 10 THEN <<Digit(n)>> ELSE NatToStr(n \div 10) \o <<Digit(n % 10)>>

\* str(n) for an int: decimal digits, with a leading minus sign if negative.
IntToStr(n) == IF n < 0 THEN <<"-">> \o NatToStr(-n) ELSE NatToStr(n)

\* str(ip) for an IPv4Address: the four octets of the dotted quad.
IpToStr(a) == <<(a \div 16777216) % 256, (a \div 65536) % 256, (a \div 256) % 256, a % 256>>

NoCmd == [prog |-> "", countFlag |-> "", count |-> <<>>, timeoutFlag |-> "",
          timeout |-> <<>>, target |-> <<>>]

\* get_ping_command(ip, timeout_ms), with system = platform.system()
get_ping_command(system, ip, t) ==
    IF system = "Windows"
    THEN [prog |-> "ping", countFlag |-> "-n", count |-> <<"1">>,
          timeoutFlag |-> "-w", timeout |-> IntToStr(t), target |-> ip]
    ELSE LET secs == Max(1, (t + 999) \div 1000)
         IN  [prog |-> "ping", countFlag |-> "-c", count |-> <<"1">>,
              timeoutFlag |-> "-W", timeout |-> IntToStr(secs), target |-> ip]

\* Variant: the thread count is passed to sweep_network as given.
ClampThreads_Unclamped(n) == n

\* main: max(1, args.threads)
ClampThreads(n) == Max(1, n)

\* Variant: the timeout is passed to sweep_network as given.
ClampTimeout_Unclamped(n) == n

\* main: max(1, args.timeout)
ClampTimeout(n) == Max(1, n)

\* [str(ip) for ip in net.hosts()]: ascending, distinct addresses
HostList(net) == [i \in 1 .. net.size |-> IpToStr(NetBase + i)]

\* Address (integer) of the i-th host
AddrOf(i) == NetBase + i

NewTask == [st |-> "pending", cmd |-> NoCmd, slot |-> 0, invocations |-> 0,
            res |-> FALSE, exc |-> "none"]

Tasks == DOMAIN task

InState(s) == {i \in Tasks : task[i].st = s}

\* Variant: every outcome is attributed to the first host.
future_to_ip_First(i) == hosts[1]

\* Variant: outcomes are attributed to the hosts in reverse order.
future_to_ip_Reversed(i) == hosts[Len(hosts) + 1 - i]

\* future_to_ip[future]
future_to_ip(i) == hosts[i]

LogRec(level, kind, ip) == [level |-> level, kind |-> kind, ip |-> ip]

\* Variant: the count stops at the first host that is not up.
RECURSIVE CountUp_Leading(_)
CountUp_Leading(rs) == IF rs = <<>> THEN 0
                       ELSE IF Head(rs)[2] THEN 1 + CountUp_Leading(Tail(rs))
                       ELSE 0

\* sum(1 for _, up in results if up)
RECURSIVE CountUp(_)
CountUp(rs) == IF rs = <<>> THEN 0
               ELSE (IF Head(rs)[2] THEN 1 ELSE 0) + CountUp(Tail(rs))

NoSummary == [set |-> FALSE, up_count |-> 0, total |-> 0]

\* ------------------------------------------------------------------------
\* Initial state: the process has not started; the environment is fixed.
\* ------------------------------------------------------------------------
Init ==
    /\ pc = "idle"
    /\ platformSys \in {"Windows", "Linux"}
    /\ network \in ArgNetworks
    /\ reach \in Probers(network)
    /\ argThreads \in ArgThreads
    /\ argTimeout \in ArgTimeouts
    /\ quiet \in BOOLEAN
    /\ threads = 0
    /\ timeout_ms = 0
    /\ hosts = <<>>
    /\ task = <<>>
    /\ results = <<>>
    /\ log = <<>>
    /\ summary = NoSummary
    /\ exitStatus = -1
    /\ prev = NoSummary

\* ------------------------------------------------------------------------
\* Actions
\* ------------------------------------------------------------------------
\* main: the call of sweep_network with the clamped threads and timeout.
Start ==
    /\ pc = "idle"
    /\ threads' = ClampThreads(argThreads)
    /\ timeout_ms' = ClampTimeout(argTimeout)
    /\ pc' = "enumerating"
    /\ UNCHANGED <<env, hosts, task, results, log, summary, exitStatus, prev>>

\* Variant: an invalid network is taken for a network without hosts.
EnumerateFail_AsEmpty ==
    /\ pc = "enumerating"
    /\ ~network.valid
    /\ hosts' = <<>>
    /\ results' = <<>>
    /\ task' = <<>>
    /\ log' = Append(log, LogRec("INFO", "start", <<>>))
    /\ pc' = "submitting"
    /\ UNCHANGED <<env, args, summary, exitStatus, prev>>

\* sweep_network: ip_network(...) raises ValueError on an invalid network;
\* nothing in main catches it, the process ends with a traceback.
EnumerateFail ==
    /\ pc = "enumerating"
    /\ ~network.valid
    /\ pc' = "crashed"
    /\ exitStatus' = 1
    /\ UNCHANGED <<env, args, hosts, task, results, log, summary, prev>>

\* sweep_network: the host list, the empty result list, the start message
\* and the creation of the executor.  ThreadPoolExecutor raises ValueError
\* for max_workers <= 0, which nothing catches.
Enumerate ==
    /\ pc = "enumerating"
    /\ network.valid
    /\ hosts' = HostList(network)
    /\ results' = <<>>
    /\ task' = <<>>
    /\ log' = Append(log, LogRec("INFO", "start", <<>>))
    /\ IF threads >= 1
       THEN pc' = "submitting" /\ UNCHANGED exitStatus
       ELSE pc' = "crashed" /\ exitStatus' = 1
    /\ UNCHANGED <<env, args, summary, prev>>

\* Variant: one work item more than there are hosts is submitted.
Submit_OneMore ==
    /\ pc = "submitting"
    /\ Len(task) <= Len(hosts)
    /\ task' = Append(task, NewTask)
    /\ UNCHANGED <<pc, env, args, hosts, results, log, summary, exitStatus, prev>>

\* executor.submit(ping_once, ip, timeout_ms) for the next host.
Submit ==
    /\ pc = "submitting"
    /\ Len(task) < Len(hosts)
    /\ task' = Append(task, NewTask)
    /\ UNCHANGED <<pc, env, args, hosts, results, log, summary, exitStatus, prev>>

\* The dict comprehension is complete: as_completed starts.
SubmitDone ==
    /\ pc = "submitting"
    /\ Len(task) = Len(hosts)
    /\ pc' = "collecting"
    /\ UNCHANGED <<env, args, hosts, task, results, log, summary, exitStatus, prev>>

\* Slots (worker threads) of the executor that are running a work item.
BusySlots == {task[i].slot : i \in InState("running")}

\* The worker threads are interchangeable: the free slot with the lowest
\* number stands for whichever idle thread takes the work item.
LowestFree(w) == w \notin BusySlots /\ \A v \in 1 .. (w - 1) : v \in BusySlots

\* Variant: the executor does not limit its threads to max_workers.
SlotFree_Unbounded(w) == LowestFree(w)

\* Variant: the executor has one thread fewer than max_workers.
SlotFree_OneFewer(w) == w \in 1 .. (threads - 1) /\ LowestFree(w)

\* A worker thread may take a work item: the executor has at most
\* max_workers threads, each running one item at a time.
SlotFree(w) == w \in 1 .. threads /\ LowestFree(w)

\* A worker takes a pending work item and calls ping_once, which builds the
\* command and starts the ping process.
StartProbe(i, w) ==
    /\ pc \in {"submitting", "collecting"}
    /\ i \in InState("pending")
    /\ SlotFree(w)
    /\ task' = [task EXCEPT ![i] =
                  [@ EXCEPT !.st = "running", !.slot = w,
                            !.invocations = @ + 1,
                            !.cmd = get_ping_command(platformSys, hosts[i], timeout_ms)]]
    /\ UNCHANGED <<pc, env, args, hosts, results, log, summary, exitStatus, prev>>

\* Exception raised by ping_once, "none" if it returns.
PingException(i) ==
    IF reach[AddrOf(i)] = "missing" THEN "RuntimeError"
    ELSE IF reach[AddrOf(i)] = "exc" THEN "OSError"
    ELSE "none"

\* result.returncode of the ping process
ReturnCode(i) == IF reach[AddrOf(i)] = "up" THEN 0 ELSE 1

\* Variant: the worker records the outcome itself when its probe ends.
FinishProbe_Records(i) ==
    /\ i \in InState("running")
    /\ task' = [task EXCEPT ![i] =
                  [@ EXCEPT !.st = "recorded", !.slot = 0,
                            !.exc = PingException(i),
                            !.res = (PingException(i) = "none" /\ ReturnCode(i) = 0)]]
    /\ results' = Append(results, <<hosts[i], PingException(i) = "none" /\ ReturnCode(i) = 0>>)
    /\ UNCHANGED <<pc, env, args, hosts, log, summary, exitStatus, prev>>

\* Variant: a ping that exits non-zero is run a second time.
FinishProbe_Retry(i) ==
    /\ i \in InState("running")
    /\ IF PingException(i) = "none" /\ ReturnCode(i) # 0 /\ task[i].invocations < 2
       THEN task' = [task EXCEPT ![i].invocations = @ + 1]
       ELSE task' = [task EXCEPT ![i] =
                       [@ EXCEPT !.st = "finished",
                                 !.exc = PingException(i),
                                 !.res = (PingException(i) = "none" /\ ReturnCode(i) = 0)]]
    /\ UNCHANGED <<pc, env, args, hosts, results, log, summary, exitStatus, prev>>

\* subprocess.run returns or raises; the future gets its result or its
\* exception and the worker thread is free again.
FinishProbe(i) ==
    /\ i \in InState("running")
    /\ task' = [task EXCEPT ![i] =
                  [@ EXCEPT !.st = "finished",
                            !.exc = PingException(i),
                            !.res = (PingException(i) = "none" /\ ReturnCode(i) = 0)]]
    /\ UNCHANGED <<pc, env, args, hosts, results, log, summary, exitStatus, prev>>

\* Variant: the except branch sets up = True.
UpOf_ErrorIsUp(i) == IF task[i].exc = "none" THEN task[i].res ELSE TRUE

\* up, as the body of the as_completed loop computes it
UpOf(i) == IF task[i].exc = "none" THEN task[i].res ELSE FALSE

\* Log records of one iteration of the as_completed loop
HandlerLog(i, ip, up) ==
    (IF task[i].exc = "none" THEN <<>> ELSE <<LogRec("ERROR", "error", ip)>>)
    \o (IF quiet THEN <<>>
        ELSE IF up THEN <<LogRec("INFO", "up", ip)>>
        ELSE <<LogRec("INFO", "down", ip)>>)

\* Variant: future.result() is called without try/except, the exception of
\* a failed probe leaves sweep_network.
Collect_NoCatch(i) ==
    /\ pc = "collecting"
    /\ i \in InState("finished")
    /\ IF task[i].exc = "none"
       THEN /\ results' = Append(results, <<hosts[i], task[i].res>>)
            /\ log' = log \o HandlerLog(i, hosts[i], task[i].res)
            /\ task' = [task EXCEPT ![i] = [@ EXCEPT !.st = "recorded", !.slot = 0]]
            /\ UNCHANGED <<pc, exitStatus>>
       ELSE /\ pc' = "crashed"
            /\ exitStatus' = 1
            /\ UNCHANGED <<results, log, task>>
    /\ UNCHANGED <<env, args, hosts, summary, prev>>

\* Variant: a yielded future stays among the futures to be yielded.
Collect_YieldAgain(i) ==
    /\ pc = "collecting"
    /\ i \in InState("finished")
    /\ results' = Append(results, <<hosts[i], UpOf(i)>>)
    /\ log' = log \o HandlerLog(i, hosts[i], UpOf(i))
    /\ UNCHANGED <<pc, env, args, hosts, task, summary, exitStatus, prev>>

\* One iteration of the as_completed loop in the main thread.  The future
\* is done with: the slot that ran it is no longer remembered.
Collect(i) ==
    /\ pc = "collecting"
    /\ i \in InState("finished")
    /\ LET ip == future_to_ip(i)
           up == UpOf(i)
       IN  /\ results' = Append(results, <<ip, up>>)
           /\ log' = log \o HandlerLog(i, ip, up)
    /\ task' = [task EXCEPT ![i] = [@ EXCEPT !.st = "recorded", !.slot = 0]]
    /\ UNCHANGED <<pc, env, args, hosts, summary, exitStatus, prev>>

\* Variant: the loop ends as soon as no finished future is waiting.
AllYielded_NoneWaiting == InState("finished") = {}

\* as_completed is exhausted when every future has been yielded.
AllYielded == \A i \in Tasks : task[i].st = "recorded"

\* The loop ends, the executor shuts down and sweep_network returns.
Return ==
    /\ pc = "collecting"
    /\ AllYielded
    /\ pc' = "returned"
    /\ UNCHANGED <<env, args, hosts, task, results, log, summary, exitStatus, prev>>

\* main: the summary counts and the final message.
Summarize ==
    /\ pc = "returned"
    /\ summary' = [set |-> TRUE, up_count |-> CountUp(results), total |-> Len(results)]
    /\ log' = Append(log, LogRec("INFO", "finished", <<>>))
    /\ exitStatus' = 0
    /\ pc' = "done"
    /\ UNCHANGED <<env, args, hosts, task, results, prev>>

Next ==
    \/ Start
    \/ EnumerateFail
    \/ Enumerate
    \/ Submit
    \/ SubmitDone
    \/ \E i \in Tasks, w \in 1 .. MaxThreads : StartProbe(i, w)
    \/ \E i \in Tasks : FinishProbe(i)
    \/ \E i \in Tasks : Collect(i)
    \/ Return
    \/ Summarize

Spec == Init /\ [][Next]_vars

\* The scheduler runs the main thread and the worker threads, and every
\* ping process terminates.
MainStep == Start \/ EnumerateFail \/ Enumerate \/ Submit \/ SubmitDone
            \/ (\E i \in Tasks : Collect(i)) \/ Return \/ Summarize

WorkerStep == \/ \E i \in Tasks, w \in 1 .. MaxThreads : StartProbe(i, w)
              \/ \E i \in Tasks : FinishProbe(i)

FairSpec == Spec /\ WF_vars(MainStep) /\ WF_vars(WorkerStep)

\* The program is run a second time on the same system with the same
\* command line; the summary of the first run is kept for comparison.
Rerun ==
    /\ pc = "done"
    /\ ~prev.set
    /\ prev' = summary
    /\ pc' = "idle"
    /\ threads' = 0
    /\ timeout_ms' = 0
    /\ hosts' = <<>>
    /\ task' = <<>>
    /\ results' = <<>>
    /\ log' = <<>>
    /\ summary' = NoSummary
    /\ exitStatus' = -1
    /\ UNCHANGED env

NextTwice == Next \/ Rerun

SpecTwice == Init /\ [][NextTwice]_vars

TypeOK ==
    /\ pc \in {"idle", "enumerating", "submitting", "collecting", "returned",
               "done", "crashed", "aborted"}
    /\ threads \in 0 .. MaxThreads
    /\ Len(task) <= Len(hosts)
    /\ Len(results) <= Len(task)

\* ------------------------------------------------------------------------
\* Properties
\* ------------------------------------------------------------------------
\* sweep_network has returned its result list
Completed == pc \in {"returned", "done"}

\* Positions of the result list that hold address ip
Positions(ip) == {j \in 1 .. Len(results) : results[j][1] = ip}

\* C1: the result list of a completed sweep of k hosts has exactly k pairs,
\* every address of the host list occurs in it exactly once, and every
\* address was probed exactly once.
C1_OnePairPerAddress ==
    Completed =>
        /\ Len(results) = Len(hosts)
        /\ \A i \in 1 .. Len(hosts) : Cardinality(Positions(hosts[i])) = 1
        /\ \A j \in 1 .. Len(results) : \E i \in 1 .. Len(hosts) : results[j][1] = hosts[i]
        /\ Len(task) = Len(hosts)
        /\ \A i \in Tasks : task[i].invocations = 1

C1_Witness ==
    /\ pc = "done"
    /\ Len(hosts) = 2
    /\ results[1][1] = hosts[2]
    /\ results[2][1] = hosts[1]

\* C2: the number of probes executing at the same time never exceeds the
\* concurrency limit, which is at least 1.
C2_ConcurrencyBound ==
    pc \notin {"idle"} =>
        /\ threads >= 1
        /\ Cardinality(InState("running")) <= threads

\* A task waits for the only slot while another probe runs.
C2_Witness ==
    /\ threads = 1
    /\ Cardinality(InState("running")) = 1
    /\ InState("pending") # {}

\* C3: once the coordinator has observed a probe reporting that the ping
\* binary is missing, the sweep is aborted: nothing is recorded for the
\* host, no result list or summary is produced, and the process ends with a
\* single fatal message and a failure status.
C3_AbortOnMissingPing ==
    \A i \in Tasks :
        (task[i].st = "recorded" /\ task[i].exc = "RuntimeError") =>
            /\ pc = "aborted"
            /\ Positions(hosts[i]) = {}
            /\ ~summary.set
            /\ exitStatus = 1
            /\ Cardinality({k \in 1 .. Len(log) : log[k].level = "CRITICAL"}) = 1

\* A probe of task i has ended in a failure other than a missing ping
\* binary: the host did not answer, or running the command raised.
Failed(i) ==
    /\ task[i].st \in {"finished", "recorded"}
    /\ \/ task[i].exc = "OSError"
       \/ task[i].exc = "none" /\ ~task[i].res

\* The outcome sweep_network records for host i under prober reach
Expected(i) == reach[AddrOf(i)] = "up"

Recorded(ip, up) == \E j \in 1 .. Len(results) : results[j] = <<ip, up>>

\* C4: a probe failure other than a missing ping binary never ends the
\* sweep abnormally; in the completed sweep the failed address is recorded
\* as not up, and every sibling task has run and has its own outcome
\* recorded.
C4_FailureContained ==
    \A i \in Tasks :
        Failed(i) =>
            /\ pc \notin {"crashed", "aborted"}
            /\ Completed =>
                  /\ Recorded(hosts[i], FALSE)
                  /\ \A j \in 1 .. Len(hosts) :
                        /\ j \in Tasks
                        /\ task[j].st = "recorded"
                        /\ task[j].invocations = 1
                        /\ Recorded(hosts[j], Expected(j))

\* One probe raised, its sibling found its host up, and the sweep is done.
C4_Witness ==
    /\ pc = "done"
    /\ Len(hosts) = 2
    /\ task[1].exc = "OSError"
    /\ task[2].res
    /\ Recorded(hosts[2], TRUE)

\* Counts over the recorded pairs: pairs that are up, pairs for which an
\* error was logged, and the other pairs.
ErrorIps == {log[k].ip : k \in {n \in 1 .. Len(log) : log[n].level = "ERROR"}}

upCount == CountUp(results)

errorCount == Cardinality({k \in 1 .. Len(log) : log[k].level = "ERROR"})

downCount == Cardinality({j \in 1 .. Len(results) :
                            ~results[j][2] /\ results[j][1] \notin ErrorIps})

\* C5: every recorded pair counts in exactly one of upCount, downCount and
\* errorCount: their sum is the number of recorded pairs, and in the summary
\* up_count + downCount + errorCount = total.
C5_CountsAddUp ==
    /\ upCount + downCount + errorCount = Len(results)
    /\ summary.set =>
          /\ summary.total = Len(results)
          /\ summary.up_count + downCount + errorCount = summary.total

\* A summary over two hosts: one up, and one whose probe raised.
C5_Witness ==
    /\ summary.set
    /\ summary.total = 2
    /\ summary.up_count = 1
    /\ errorCount = 1

\* The prober maps every address to Up or Down.
UpDownProber == \A a \in DOMAIN reach : reach[a] \in {"up", "down"}

\* C6: with a prober that maps addresses to Up or Down, a completed sweep
\* records for every address the outcome of its own probe, and the summary
\* counts the addresses mapped Up and the number of hosts.
C6_OwnOutcome ==
    (UpDownProber /\ Completed) =>
        /\ \A j \in 1 .. Len(results) :
              \E i \in 1 .. Len(hosts) :
                  results[j] = <<hosts[i], Expected(i)>>
        /\ \A i \in 1 .. Len(hosts) : Recorded(hosts[i], Expected(i))
        /\ summary.set =>
              /\ summary.up_count = Cardinality({i \in 1 .. Len(hosts) : Expected(i)})
              /\ downCount = Cardinality({i \in 1 .. Len(hosts) : ~Expected(i)})
              /\ summary.total = Len(hosts)

\* Host 1 is up, host 2 is down, and host 2 was recorded first.
C6_Witness ==
    /\ pc = "done"
    /\ Len(hosts) = 2
    /\ reach[AddrOf(1)] = "up"
    /\ reach[AddrOf(2)] = "down"
    /\ results[1] = <<hosts[2], FALSE>>
    /\ summary = [set |-> TRUE, up_count |-> 1, total |-> 2]
    /\ downCount = 1

\* C7: a second run on the same host list with the same prober ends with
\* the summary counts of the first run, whatever the interleavings.
C7_SameCountsTwice ==
    (prev.set /\ summary.set) =>
        /\ summary.up_count = prev.up_count
        /\ summary.total = prev.total
        /\ summary.total - summary.up_count = prev.total - prev.up_count

\* The second run is done and recorded host 2 before host 1.
C7_Witness ==
    /\ prev.set
    /\ pc = "done"
    /\ prev.up_count = 1
    /\ Len(hosts) = 2
    /\ results[1][1] = hosts[2]

\* C8: when sweep_network has returned, and when the summary is computed,
\* every host has a task, no task is pending or in flight, and the outcome
\* of every task is in the result list.
C8_ReturnsAfterAll ==
    (Completed \/ summary.set) =>
        /\ Len(task) = Len(hosts)
        /\ InState("pending") = {}
        /\ InState("running") = {}
        /\ InState("finished") = {}
        /\ \A i \in Tasks : Positions(hosts[i]) # {}

\* sweep_network has returned after two tasks shared the only slot.
C8_Witness ==
    /\ pc = "returned"
    /\ threads = 1
    /\ Len(hosts) = 2
    /\ \A i \in Tasks : task[i].invocations = 1

\* The sweep has ended and, unless aborted, every task has run once and is
\* complete.
Terminal ==
    /\ pc \in {"done", "aborted"}
    /\ pc = "done" =>
          /\ Len(task) = Len(hosts)
          /\ \A i \in Tasks : task[i].st = "recorded" /\ task[i].invocations = 1

\* C9: under fair scheduling and terminating probes, a sweep of a valid
\* network reaches a terminal state in which every task has completed
\* exactly once.
C9_Terminates == (pc = "idle" /\ network.valid) ~> Terminal

C9_Witness ==
    /\ Terminal
    /\ Len(hosts) = 2
    /\ threads = 1

\* The integer a command-line argument denotes
DigitVal(c) == CHOOSE d \in 0 .. 9 : Digit(d) = c

RECURSIVE StrToNat(_)
StrToNat(str) == IF str = <<>> THEN 0
                 ELSE 10 * StrToNat(SubSeq(str, 1, Len(str) - 1)) + DigitVal(str[Len(str)])

StrToInt(str) == IF str # <<>> /\ Head(str) = "-" THEN 0 - StrToNat(Tail(str))
                 ELSE StrToNat(str)

\* C10: the timeout argument of every ping command that is run denotes a
\* value of at least 1, on Windows (milliseconds) and elsewhere (seconds),
\* whatever timeout was requested.
C10_TimeoutPositive ==
    \A i \in Tasks :
        task[i].invocations > 0 =>
            /\ task[i].cmd.timeout # <<>>
            /\ StrToInt(task[i].cmd.timeout) >= 1

\* A ping command runs on Windows after a negative timeout was requested.
C10_Witness ==
    /\ platformSys = "Windows"
    /\ argTimeout < 0
    /\ \E i \in Tasks : task[i].st = "running" /\ task[i].cmd.timeout = <<"1">>

\* sweep_network has enumerated a network without hosts
EmptySweep == network.valid /\ network.size = 0 /\ pc \notin {"idle", "enumerating"}

C12_InvalidNetwork ==
    ~network.valid =>
        /\ pc \in {"idle", "enumerating", "crashed"}
        /\ hosts = <<>>
        /\ task = <<>>
        /\ results = <<>>
        /\ log = <<>>
        /\ ~summary.set
        /\ pc = "crashed" => exitStatus = 1

\* The process has ended on the invalid network.
C12_Witness ==
    /\ ~network.valid
    /\ pc = "crashed"
    /\ exitStatus = 1

\* C13 as stated: a slot never runs a probe while the outcome of a probe it
\* finished earlier is still unrecorded.
C13_RecordedBeforeSlotReuse ==
    \A i \in Tasks, j \in Tasks :
        (task[i].st = "finished" /\ task[j].st = "running") =>
            task[j].slot # task[i].slot

\* C13, amended: the outcome of a task is recorded exactly once, by the main
\* thread in its as_completed loop and only after the probe has finished; it
\* is in the result list exactly when the task's future has been yielded.
C13_RecordedOnceAfterFinish ==
    /\ \A i \in Tasks :
          Cardinality(Positions(hosts[i])) = (IF task[i].st = "recorded" THEN 1 ELSE 0)
    /\ results # <<>> => pc \in {"collecting", "returned", "done"}

\* A slot runs its next probe; the outcome of its previous probe is
\* recorded only then.
C13_Witness ==
    /\ pc = "collecting"
    /\ Len(task) = 2
    /\ task[1].st = "recorded"
    /\ task[2].st = "running"
    /\ task[2].slot = 1
    /\ threads = 1
    /\ Len(results) = 1

\* The coordinator has seen a probe report that ping is missing.
MissingReported ==
    \E i \in Tasks : task[i].st = "recorded" /\ task[i].exc = "RuntimeError"

\* C14 as stated: once the missing ping binary has been reported, no further
\* work item is submitted and no probe that had not started is started.
C14_NoStartAfterMissing ==
    [][MissingReported =>
          /\ Len(task') = Len(task)
          /\ \A j \in Tasks : task'[j].invocations = task[j].invocations]_vars

\* A worker thread takes a step: it starts a probe or its probe ends.
WorkerMoved ==
    \E i \in Tasks :
        /\ i \in DOMAIN task'
        /\ \/ task[i].st = "pending" /\ task'[i].st = "running"
           \/ task[i].st = "running" /\ task'[i].st # "running"

\* C15: the result list, the log and the summary are only changed by the
\* main thread, one pair at a time; a step of a worker thread that starts or
\* ends a probe leaves them and every other variable but its own task alone.
C15_SingleWriter ==
    [][/\ WorkerMoved => UNCHANGED <<results, log, summary, hosts, pc, exitStatus, args, env>>
       /\ results' # results =>
             /\ ~WorkerMoved
             /\ pc = "collecting"
             /\ Len(results') = Len(results) + 1
             /\ SubSeq(results', 1, Len(results)) = results]_vars

\* The main thread has recorded an outcome while a worker runs a probe.
C15_Witness ==
    /\ Len(results) = 1
    /\ InState("running") # {}

\* C16: a call of ping_once runs the ping command exactly once; it returns
\* True exactly when the command exits with status 0, and False on any
\* other exit.
C16_OneShotProbe ==
    \A i \in Tasks :
        /\ task[i].st # "pending" => task[i].invocations = 1
        /\ task[i].st \in {"finished", "recorded"} =>
              /\ reach[AddrOf(i)] = "up" => (task[i].exc = "none" /\ task[i].res)
              /\ reach[AddrOf(i)] = "down" => (task[i].exc = "none" /\ ~task[i].res)
              /\ task[i].res => reach[AddrOf(i)] = "up"

\* One probe has returned True and one has returned False.
C16_Witness ==
    /\ Len(task) = 2
    /\ task[1].st \in {"finished", "recorded"} /\ task[1].res
    /\ task[2].st \in {"finished", "recorded"} /\ ~task[2].res /\ task[2].exc = "none"
    /\ reach[AddrOf(2)] = "down"

\* C17: sweep_network runs with max(1, args.threads) threads: at least 1,
\* and the requested number when that is positive; the executor is always
\* created, and a pending task with no probe running always has a free slot.
C17_ThreadsAtLeastOne ==
    pc # "idle" =>
        /\ threads >= 1
        /\ threads = (IF argThreads >= 1 THEN argThreads ELSE 1)
        /\ network.valid => pc # "crashed"
        /\ (InState("pending") # {} /\ InState("running") = {}) => SlotFree(1)

\* A sweep of two hosts is done after a non-positive thread count was given.
C17_Witness ==
    /\ argThreads <= 0
    /\ pc = "done"
    /\ Len(results) = 2
    /\ threads = 1
====
